---- MODULE Spec2Model ----
(***************************************************************************)
(* A model of lvlgen's state_graph.rs: the StateGraph container, the       *)
(* breadth-first shortest-path builder, the push-move generator and the    *)
(* recursive explorer find_solvable_states.                                *)
(*                                                                         *)
(* Conventions.  A grid (Vec<Cell>) is a function 0..n-1 -> Cell, so cell  *)
(* indices are the source's indices.  An Option<T> is a set: {} is None    *)
(* and {x} is Some(x).  A HashMap is a function whose DOMAIN is the key    *)
(* set.  A panic (assert!, unwrap on None, index out of range) moves pc to *)
(* "panic" and leaves the graph as the failing call found it.              *)
(***************************************************************************)
EXTENDS Integers, Sequences, FiniteSets, TLC

VARIABLES
  pc,        \* position of the running program
  size,      \* board size of the exploration in progress (0 when unused)
  input,     \* Some(<<tractor, grid>>): arguments of find_solvable_states
  initial_state, \* Some(root): the configuration handed to StateGraph::new
  graph,     \* the StateGraph: [state_to_id, id_to_state, neighbors]
  stack,     \* activation records of handle_next_state, innermost last
  calls,     \* history: the states handle_next_state was invoked with
  last,      \* the last StateGraph call made through the public interface
  from,      \* build_shortest_path_from: Some(source id)
  queue,     \* build_shortest_path_from: the VecDeque
  visited,   \* build_shortest_path_from: the HashSet
  shortest   \* build_shortest_path_from: the ShortestGraph being built

vars == <<pc, size, input, initial_state, graph, stack, calls, last,
          from, queue, visited, shortest>>

(***************************************************************************)
(* Bounds of the model.                                                    *)
(***************************************************************************)
MaxBoulders == 2   \* boulders (Boulder or BoulderInHole) of an input grid
MaxHoles == 1      \* empty holes of an input grid
MaxLen == 3        \* configurations inserted through the public interface
MaxEdges == 2      \* connect_states calls through the public interface
MaxNodes == 3      \* nodes of a graph handed to build_shortest_path_from
MaxArcs == 4       \* edges of a graph handed to build_shortest_path_from

BoardSizes == {1, 2, 3}

(***************************************************************************)
(* Cells, grids and directions.                                            *)
(***************************************************************************)
Unreachable == "Unreachable"
Reachable == "Reachable"
Hole == "Hole"
Boulder == "Boulder"
BoulderInHole == "BoulderInHole"

Cell == {Unreachable, Reachable, Hole, Boulder, BoulderInHole}

Up == "Up"
Down == "Down"
Left == "Left"
Right == "Right"

DIRECTIONS == <<Up, Down, Left, Right>>

Some(x) == {x}
None == {}
Unwrap(o) == CHOOSE x \in o : TRUE

GridLen(grid) == Cardinality(DOMAIN grid)

to_index(row, col, board_size) == row * board_size + col

move_one_Wraps(idx, dir, board_size) ==
  LET row == idx \div board_size
      col == idx % board_size
  IN CASE dir = Up ->
            IF row = 0 THEN None
            ELSE Some(to_index(row - 1, col, board_size))
       [] dir = Down ->
            IF row >= board_size - 1 THEN None
            ELSE Some(to_index(row + 1, col, board_size))
       [] dir = Left ->
            IF idx = 0 THEN None
            ELSE Some(idx - 1)
       [] dir = Right ->
            IF idx >= board_size * board_size - 1 THEN None
            ELSE Some(idx + 1)

move_one(idx, dir, board_size) ==
  LET row == idx \div board_size
      col == idx % board_size
  IN CASE dir = Up ->
            IF row = 0 THEN None
            ELSE Some(to_index(row - 1, col, board_size))
       [] dir = Down ->
            IF row >= board_size - 1 THEN None
            ELSE Some(to_index(row + 1, col, board_size))
       [] dir = Left ->
            IF col = 0 THEN None
            ELSE Some(to_index(row, col - 1, board_size))
       [] dir = Right ->
            IF col >= board_size - 1 THEN None
            ELSE Some(to_index(row, col + 1, board_size))

(***************************************************************************)
(* The reachability flood-fill of crate::grid.  The movement graph has one *)
(* key per Unreachable cell, listing its Unreachable orthogonal neighbours *)
(* in the order Up, Down, Left, Right; the fill tags every cell the walk   *)
(* from the start collects as Reachable.                                   *)
(***************************************************************************)
grid_to_movement_graph(grid, board_size) ==
  [i \in {j \in DOMAIN grid : grid[j] = Unreachable} |->
     SelectSeq(
       [k \in 1..4 |->
          LET m == move_one(i, DIRECTIONS[k], board_size)
          IN IF m # None /\ Unwrap(m) \in DOMAIN grid
                /\ grid[Unwrap(m)] = Unreachable
             THEN Unwrap(m) ELSE -1],
       LAMBDA x : x # -1)]

RECURSIVE WalkFrom(_, _, _)
WalkFrom(frontier, seen, mgraph) ==
  IF frontier = {} THEN seen
  ELSE LET next == UNION {{mgraph[i][k] : k \in 1..Len(mgraph[i])} :
                            i \in frontier \cap DOMAIN mgraph} \ seen
       IN WalkFrom(next, seen \cup next, mgraph)

walk_graph_from(start, mgraph) == WalkFrom({start}, {start}, mgraph)

fill_reachable_cells(start, grid, board_size) ==
  LET reached == walk_graph_from(start, grid_to_movement_graph(grid, board_size))
  IN [i \in DOMAIN grid |-> IF i \in reached THEN Reachable ELSE grid[i]]

(***************************************************************************)
(* The push-move generator.                                                *)
(***************************************************************************)
ExtendStatePanics(boulder, grid) ==
  \/ boulder \notin DOMAIN grid
  \/ grid[boulder] \notin {Boulder, BoulderInHole}

\* extend_state with the test of the landing cell, the tag left in the
\* vacated cell and the tag put in the landing cell left open
ExtendWith(boulder, dir, grid, board_size, Lands(_), Vacated(_), Landed(_)) ==
  LET nb == move_one(boulder, dir, board_size)
  IN IF nb = None THEN None
     ELSE LET new_boulder == Unwrap(nb)
          IN IF ~Lands(grid[new_boulder]) THEN None
             ELSE LET nt == move_one(new_boulder, dir, board_size)
                  IN IF nt = None THEN None
                     ELSE LET new_tractor == Unwrap(nt)
                          IN IF grid[new_tractor] # Reachable THEN None
                             ELSE LET moved ==
                                        [i \in DOMAIN grid |->
                                           IF i = new_boulder THEN Landed(grid[i])
                                           ELSE IF i = boulder THEN Vacated(grid[i])
                                           ELSE IF grid[i] = Reachable THEN Unreachable
                                           ELSE grid[i]]
                                  IN Some(fill_reachable_cells(
                                            new_tractor, moved, board_size))

extend_state_KeepsBoulder(boulder, dir, grid, board_size) ==
  ExtendWith(boulder, dir, grid, board_size,
             LAMBDA c : c = Reachable, LAMBDA c : c, LAMBDA c : Boulder)

extend_state_LosesHole(boulder, dir, grid, board_size) ==
  ExtendWith(boulder, dir, grid, board_size,
             LAMBDA c : c = Reachable, LAMBDA c : Unreachable, LAMBDA c : Boulder)

extend_state_Seats(boulder, dir, grid, board_size) ==
  ExtendWith(boulder, dir, grid, board_size,
             LAMBDA c : c = Reachable \/ c = Hole,
             LAMBDA c : IF c = Boulder THEN Unreachable ELSE Hole,
             LAMBDA c : IF c = Hole THEN BoulderInHole ELSE Boulder)

extend_state(boulder, dir, grid, board_size) ==
  LET nb == move_one(boulder, dir, board_size)
  IN IF nb = None THEN None
     ELSE LET new_boulder == Unwrap(nb)
          IN IF grid[new_boulder] # Reachable THEN None
             ELSE LET nt == move_one(new_boulder, dir, board_size)
                  IN IF nt = None THEN None
                     ELSE LET new_tractor == Unwrap(nt)
                          IN IF grid[new_tractor] # Reachable THEN None
                             ELSE LET vacated ==
                                        [grid EXCEPT ![boulder] =
                                           IF @ = Boulder THEN Unreachable
                                           ELSE IF @ = BoulderInHole THEN Hole
                                           ELSE @]
                                      landed ==
                                        [vacated EXCEPT ![new_boulder] = Boulder]
                                      cleared ==
                                        [i \in DOMAIN landed |->
                                           IF landed[i] = Reachable
                                           THEN Unreachable ELSE landed[i]]
                                  IN Some(fill_reachable_cells(
                                            new_tractor, cleared, board_size))

(***************************************************************************)
(* The StateGraph.                                                         *)
(***************************************************************************)
StateGraphDefault ==
  [state_to_id |-> <<>>, id_to_state |-> <<>>, neighbors |-> <<>>]

len(g) == Cardinality(DOMAIN g.state_to_id)

get_neighbors(g, id) ==
  IF id \in DOMAIN g.neighbors THEN Some(g.neighbors[id]) ELSE None

get_state(g, id) ==
  IF id \in DOMAIN g.id_to_state THEN Some(g.id_to_state[id]) ELSE None

contains_id_OffByOne(g, id) == id <= Cardinality(DOMAIN g.id_to_state)

contains_id(g, id) == id \in DOMAIN g.id_to_state

contains_state(g, state) == state \in DOMAIN g.state_to_id

\* HashMap::insert: the key's old value, if any, is replaced
MapInsert(m, k, v) == [x \in DOMAIN m \cup {k} |-> IF x = k THEN v ELSE m[x]]

InsertStatePanics_Never(g, state) == FALSE

InsertStatePanics(g, state) == state \in DOMAIN g.state_to_id

insert_state_id_Prev(g, state) ==
  IF DOMAIN g.state_to_id = {} THEN 0 ELSE Cardinality(DOMAIN g.state_to_id) - 1

insert_state_id_Skip(g, state) == Cardinality(DOMAIN g.state_to_id) + 1

insert_state_id(g, state) == Cardinality(DOMAIN g.state_to_id)

insert_state_NoNeighbors(g, state) ==
  LET id == insert_state_id(g, state)
  IN [state_to_id |-> MapInsert(g.state_to_id, state, id),
      id_to_state |-> MapInsert(g.id_to_state, id, state),
      neighbors   |-> g.neighbors]

insert_state(g, state) ==
  LET id == insert_state_id(g, state)
  IN [state_to_id |-> MapInsert(g.state_to_id, state, id),
      id_to_state |-> MapInsert(g.id_to_state, id, state),
      neighbors   |-> MapInsert(g.neighbors, id, <<>>)]

SetRootPanics(g, state) ==
  len(g) # 0 \/ InsertStatePanics(g, state)

set_root(g, state) == insert_state(g, state)

new(root) == set_root(StateGraphDefault, root)

ConnectStatesPanics(g, a, b) ==
  a \notin DOMAIN g.state_to_id \/ b \notin DOMAIN g.state_to_id

connect_states_Reversed(g, a, b) ==
  LET from_id == g.state_to_id[b]
      to_id == g.state_to_id[a]
  IN IF from_id \in DOMAIN g.neighbors
     THEN [g EXCEPT !.neighbors[from_id] = Append(@, to_id)]
     ELSE g

connect_states_Twice(g, a, b) ==
  LET from_id == g.state_to_id[a]
      to_id == g.state_to_id[b]
  IN IF from_id \in DOMAIN g.neighbors
     THEN [g EXCEPT !.neighbors[from_id] = Append(Append(@, to_id), to_id)]
     ELSE g

connect_states_Dedup(g, a, b) ==
  LET from_id == g.state_to_id[a]
      to_id == g.state_to_id[b]
  IN IF from_id \in DOMAIN g.neighbors
        /\ \A k \in 1..Len(g.neighbors[from_id]) : g.neighbors[from_id][k] # to_id
     THEN [g EXCEPT !.neighbors[from_id] = Append(@, to_id)]
     ELSE g

connect_states(g, a, b) ==
  LET from_id == g.state_to_id[a]
      to_id == g.state_to_id[b]
  IN IF from_id \in DOMAIN g.neighbors
     THEN [g EXCEPT !.neighbors[from_id] = Append(@, to_id)]
     ELSE g

(***************************************************************************)
(* find_solvable_states and the recursive walk.  An activation record of   *)
(* handle_next_state holds its state argument and the loop position        *)
(* (idx, dir) of the next push to attempt; dir indexes DIRECTIONS from 1.  *)
(* Cells that hold no boulder are passed over by the outer loop, so the    *)
(* position always rests on a boulder cell or on the end of the grid.      *)
(***************************************************************************)
IsBoulder(c) == c = Boulder \/ c = BoulderInHole

NextBoulder_NoSkip(state, i) ==
  IF i < GridLen(state) THEN i ELSE GridLen(state)

NextBoulder(state, i) ==
  LET later == {j \in DOMAIN state : j >= i /\ IsBoulder(state[j])}
  IN IF later = {} THEN GridLen(state)
     ELSE CHOOSE j \in later : \A k \in later : j <= k

Frame(state) == [state |-> state, idx |-> NextBoulder(state, 0), dir |-> 1]

Advance_Breaks(f) ==
  IF f.dir < Len(DIRECTIONS) THEN [f EXCEPT !.dir = @ + 1]
  ELSE [f EXCEPT !.idx = GridLen(f.state), !.dir = 1]

Advance_Repeats(f) ==
  IF f.dir < Len(DIRECTIONS) THEN [f EXCEPT !.dir = @ + 1]
  ELSE [f EXCEPT !.dir = 1]

Advance(f) ==
  IF f.dir < Len(DIRECTIONS) THEN [f EXCEPT !.dir = @ + 1]
  ELSE [f EXCEPT !.idx = NextBoulder(f.state, f.idx + 1), !.dir = 1]

Top == stack[Len(stack)]

SetTop(f) == [stack EXCEPT ![Len(stack)] = f]

RootOf(tractor, grid, board_size) ==
  fill_reachable_cells(tractor, [grid EXCEPT ![tractor] = Unreachable], board_size)

BfsIdle == from = None /\ queue = <<>> /\ visited = {} /\ shortest = <<>>

WalkIdle == size = 0 /\ input = None /\ stack = <<>> /\ calls = <<>>

\* find_solvable_states up to the first call of handle_next_state
FindSolvableStates ==
  /\ pc = "start"
  /\ LET tractor == Unwrap(input)[1]
         grid == Unwrap(input)[2]
         root == RootOf(tractor, grid, size)
     IN /\ initial_state' = Some(root)
        /\ graph' = new(root)
        /\ stack' = <<Frame(root)>>
        /\ calls' = <<root>>
  /\ pc' = "walk"
  /\ input' = None
  /\ UNCHANGED <<size, last, from, queue, visited, shortest>>

PushOf(f) == extend_state(f.idx, DIRECTIONS[f.dir], f.state, size)

\* one pass of the inner loop: the push is illegal
PushIllegal ==
  /\ pc = "walk" /\ stack # <<>>
  /\ Top.idx < GridLen(Top.state)
  /\ IF ExtendStatePanics(Top.idx, Top.state)
     THEN pc' = "panic" /\ UNCHANGED stack
     ELSE /\ PushOf(Top) = None
          /\ stack' = SetTop(Advance(Top))
          /\ pc' = pc
  /\ UNCHANGED <<size, input, initial_state, graph, calls, last,
                 from, queue, visited, shortest>>

PushKnown_NoEdge ==
  /\ pc = "walk" /\ stack # <<>>
  /\ Top.idx < GridLen(Top.state)
  /\ ~ExtendStatePanics(Top.idx, Top.state)
  /\ PushOf(Top) # None
  /\ contains_state(graph, Unwrap(PushOf(Top)))
  /\ stack' = SetTop(Advance(Top))
  /\ UNCHANGED <<pc, graph, size, input, initial_state, calls, last,
                 from, queue, visited, shortest>>

PushKnown_Recurses ==
  /\ pc = "walk" /\ stack # <<>>
  /\ Top.idx < GridLen(Top.state)
  /\ ~ExtendStatePanics(Top.idx, Top.state)
  /\ PushOf(Top) # None
  /\ LET new_state == Unwrap(PushOf(Top))
     IN /\ contains_state(graph, new_state)
        /\ graph' = connect_states(graph, Top.state, new_state)
        /\ stack' = Append(SetTop(Advance(Top)), Frame(new_state))
        /\ calls' = Append(calls, new_state)
  /\ UNCHANGED <<pc, size, input, initial_state, last,
                 from, queue, visited, shortest>>

\* one pass of the inner loop: the push leads to a state already found
PushKnown ==
  /\ pc = "walk" /\ stack # <<>>
  /\ Top.idx < GridLen(Top.state)
  /\ ~ExtendStatePanics(Top.idx, Top.state)
  /\ PushOf(Top) # None
  /\ LET new_state == Unwrap(PushOf(Top))
     IN /\ contains_state(graph, new_state)
        /\ IF ConnectStatesPanics(graph, Top.state, new_state)
           THEN pc' = "panic" /\ UNCHANGED <<graph, stack>>
           ELSE /\ graph' = connect_states(graph, Top.state, new_state)
                /\ stack' = SetTop(Advance(Top))
                /\ pc' = pc
  /\ UNCHANGED <<size, input, initial_state, calls, last,
                 from, queue, visited, shortest>>

\* one pass of the inner loop: the push leads to a new state, which
\* line 182 inserts; the program then stands before line 183
PushInsert ==
  /\ pc = "walk" /\ stack # <<>>
  /\ Top.idx < GridLen(Top.state)
  /\ ~ExtendStatePanics(Top.idx, Top.state)
  /\ PushOf(Top) # None
  /\ LET new_state == Unwrap(PushOf(Top))
     IN /\ ~contains_state(graph, new_state)
        /\ IF InsertStatePanics(graph, new_state)
           THEN pc' = "panic" /\ UNCHANGED graph
           ELSE /\ graph' = insert_state(graph, new_state)
                /\ pc' = "connect"
  /\ UNCHANGED <<size, input, initial_state, stack, calls, last,
                 from, queue, visited, shortest>>

\* lines 183-184: the new state is connected and recursed into
PushConnect ==
  /\ pc = "connect" /\ stack # <<>>
  /\ LET new_state == Unwrap(PushOf(Top))
     IN IF ConnectStatesPanics(graph, Top.state, new_state)
        THEN pc' = "panic" /\ UNCHANGED <<graph, stack, calls>>
        ELSE /\ graph' = connect_states(graph, Top.state, new_state)
             /\ stack' = Append(SetTop(Advance(Top)), Frame(new_state))
             /\ calls' = Append(calls, new_state)
             /\ pc' = "walk"
  /\ UNCHANGED <<size, input, initial_state, last,
                 from, queue, visited, shortest>>

\* handle_next_state returns; the outermost return ends the walk
Return ==
  /\ pc = "walk" /\ stack # <<>>
  /\ Top.idx >= GridLen(Top.state)
  /\ stack' = SubSeq(stack, 1, Len(stack) - 1)
  /\ pc' = IF Len(stack) = 1 THEN "done" ELSE pc
  /\ UNCHANGED <<size, input, initial_state, graph, calls, last,
                 from, queue, visited, shortest>>

(***************************************************************************)
(* The inputs of find_solvable_states: every grid of a board size in       *)
(* BoardSizes that carries no transient Reachable marker, within the       *)
(* bounds on boulders and holes, and every tractor index of the grid.      *)
(***************************************************************************)
CountOf(grid, tags) == Cardinality({i \in DOMAIN grid : grid[i] \in tags})

InputGrids(n) ==
  {g \in [0..(n * n - 1) -> Cell \ {Reachable}] :
     /\ CountOf(g, {Boulder, BoulderInHole}) <= MaxBoulders
     /\ CountOf(g, {Hole}) <= MaxHoles}

NoLast == [op |-> "none"]

InitWalk ==
  /\ pc = "start"
  /\ size \in BoardSizes
  /\ input \in {Some(<<t, g>>) : t \in 0..(size * size - 1), g \in InputGrids(size)}
  /\ initial_state = None
  /\ graph = StateGraphDefault
  /\ stack = <<>>
  /\ calls = <<>>
  /\ last = NoLast
  /\ BfsIdle

NextWalk ==
  \/ FindSolvableStates
  \/ PushIllegal
  \/ PushKnown
  \/ PushInsert
  \/ PushConnect
  \/ Return

SpecWalk == InitWalk /\ [][NextWalk]_vars

\* the grid and the tractor index of test_search
TestGrid ==
  [i \in 0..15 |-> IF i \in {0, 3, 12, 15} THEN BoulderInHole ELSE Unreachable]

InitTest ==
  /\ pc = "start"
  /\ size = 4
  /\ input = Some(<<8, TestGrid>>)
  /\ initial_state = None
  /\ graph = StateGraphDefault
  /\ stack = <<>>
  /\ calls = <<>>
  /\ last = NoLast
  /\ BfsIdle

\* the bounded inputs and the input of test_search
SpecWalkTest == (InitWalk \/ InitTest) /\ [][NextWalk]_vars

(***************************************************************************)
(* The public interface of StateGraph, called in any order on a graph made *)
(* by StateGraph::new.  The configurations handed in are the 1x1 grids.    *)
(* last records the call: its name, its arguments and what it returned     *)
(* (ret is None when the call panicked).                                   *)
(***************************************************************************)
ApiStates == [0..0 -> Cell \ {Reachable}]

ApiIds == 0..MaxLen

NumEdges(g) ==
  LET RECURSIVE Sum(_)
      Sum(S) == IF S = {} THEN 0
                ELSE LET x == CHOOSE y \in S : TRUE
                     IN Len(g.neighbors[x]) + Sum(S \ {x})
  IN Sum(DOMAIN g.neighbors)

InsertState(state) ==
  /\ pc = "api"
  /\ len(graph) < MaxLen \/ InsertStatePanics(graph, state)
  /\ IF InsertStatePanics(graph, state)
     THEN /\ pc' = "panic"
          /\ last' = [op |-> "insert_state", state |-> state, ret |-> None]
          /\ UNCHANGED graph
     ELSE /\ graph' = insert_state(graph, state)
          /\ last' = [op |-> "insert_state", state |-> state,
                      ret |-> Some(insert_state_id(graph, state))]
          /\ pc' = pc
  /\ UNCHANGED <<size, input, initial_state, stack, calls,
                 from, queue, visited, shortest>>

ConnectStates(a, b) ==
  /\ pc = "api"
  /\ NumEdges(graph) < MaxEdges \/ ConnectStatesPanics(graph, a, b)
  /\ IF ConnectStatesPanics(graph, a, b)
     THEN /\ pc' = "panic"
          /\ last' = [op |-> "connect_states", from |-> a, to |-> b, ret |-> None]
          /\ UNCHANGED graph
     ELSE /\ graph' = connect_states(graph, a, b)
          /\ last' = [op |-> "connect_states", from |-> a, to |-> b,
                      ret |-> Some("unit")]
          /\ pc' = pc
  /\ UNCHANGED <<size, input, initial_state, stack, calls,
                 from, queue, visited, shortest>>

Accessor(call) ==
  /\ pc = "api"
  /\ last' = call
  /\ UNCHANGED <<pc, graph, size, input, initial_state, stack, calls,
                 from, queue, visited, shortest>>

GetNeighbors(id) ==
  Accessor([op |-> "get_neighbors", id |-> id, ret |-> Some(get_neighbors(graph, id))])

GetState(id) ==
  Accessor([op |-> "get_state", id |-> id, ret |-> Some(get_state(graph, id))])

ContainsId(id) ==
  Accessor([op |-> "contains_id", id |-> id, ret |-> Some(contains_id(graph, id))])

ContainsState(state) ==
  Accessor([op |-> "contains_state", state |-> state,
            ret |-> Some(contains_state(graph, state))])

LenCall ==
  Accessor([op |-> "len", ret |-> Some(len(graph))])

InitApi ==
  /\ pc = "api"
  /\ \E root \in ApiStates : initial_state = Some(root) /\ graph = new(root)
  /\ last = NoLast
  /\ WalkIdle
  /\ BfsIdle

NextApi ==
  \/ \E state \in ApiStates : InsertState(state)
  \/ \E a \in ApiStates, b \in ApiStates : ConnectStates(a, b)
  \/ \E id \in ApiIds : GetNeighbors(id)
  \/ \E id \in ApiIds : GetState(id)
  \/ \E id \in ApiIds : ContainsId(id)
  \/ \E state \in ApiStates : ContainsState(state)
  \/ LenCall

SpecApi == InitApi /\ [][NextApi]_vars

(***************************************************************************)
(* build_shortest_path_from, one action per pass of its while loop, on the *)
(* graphs that insert_state and connect_states build.  Node i of such a    *)
(* graph holds the 1x1 grid NodeState(i).  shortest is the sequence of     *)
(* <<parent, child>> pairs that ShortestGraph::insert was handed.          *)
(***************************************************************************)
CellSeq == <<Unreachable, Hole, Boulder, BoulderInHole, Reachable>>

NodeState(i) == [j \in 0..0 |-> CellSeq[i + 1]]

BuildInsert ==
  /\ pc = "api"
  /\ len(graph) < MaxNodes
  /\ ~InsertStatePanics(graph, NodeState(len(graph)))
  /\ graph' = insert_state(graph, NodeState(len(graph)))
  /\ UNCHANGED <<pc, size, input, initial_state, stack, calls, last,
                 from, queue, visited, shortest>>

BuildConnect(a, b) ==
  /\ pc = "api"
  /\ NumEdges(graph) < MaxArcs
  /\ ~ConnectStatesPanics(graph, NodeState(a), NodeState(b))
  /\ graph' = connect_states(graph, NodeState(a), NodeState(b))
  /\ UNCHANGED <<pc, size, input, initial_state, stack, calls, last,
                 from, queue, visited, shortest>>

\* lines 39-43: the queue and the visited set are seeded with the source
BfsStart(source) ==
  /\ pc = "api"
  /\ from' = Some(source)
  /\ queue' = <<source>>
  /\ visited' = {source}
  /\ shortest' = <<>>
  /\ pc' = "bfs"
  /\ UNCHANGED <<size, input, initial_state, graph, stack, calls, last>>

Fresh_SkipsFirst(g, seen, next) ==
  IF next \in DOMAIN g.neighbors
  THEN SelectSeq(SubSeq(g.neighbors[next], 2, Len(g.neighbors[next])),
                 LAMBDA neighbor : neighbor \notin seen)
  ELSE <<>>

\* the neighbours of next that one pass of the while loop records and queues
Fresh(g, seen, next) ==
  IF next \in DOMAIN g.neighbors
  THEN SelectSeq(g.neighbors[next], LAMBDA neighbor : neighbor \notin seen)
  ELSE <<>>

\* lines 44-55: one pass of the while loop
BfsIter ==
  /\ pc = "bfs"
  /\ queue # <<>>
  /\ LET next == Head(queue)
         seen == visited \cup {next}
         fresh == Fresh(graph, seen, next)
     IN /\ visited' = seen
        /\ shortest' = shortest \o [k \in 1..Len(fresh) |-> <<next, fresh[k]>>]
        /\ queue' = Tail(queue) \o fresh
  /\ UNCHANGED <<pc, size, input, initial_state, graph, stack, calls, last, from>>

\* line 56: the queue is empty and the tree is returned
BfsReturn ==
  /\ pc = "bfs"
  /\ queue = <<>>
  /\ pc' = "bfs_done"
  /\ UNCHANGED <<size, input, initial_state, graph, stack, calls, last,
                 from, queue, visited, shortest>>

InitBfs ==
  /\ pc = "api"
  /\ initial_state = Some(NodeState(0))
  /\ graph = new(NodeState(0))
  /\ last = NoLast
  /\ WalkIdle
  /\ BfsIdle

NextBfs ==
  \/ BuildInsert
  \/ \E a \in 0..(MaxNodes - 1), b \in 0..(MaxNodes - 1) : BuildConnect(a, b)
  \/ \E source \in 0..len(graph) : BfsStart(source)
  \/ BfsIter
  \/ BfsReturn

SpecBfs == InitBfs /\ [][NextBfs]_vars

\* the while loop runs on until the queue is empty
SpecBfsFair == SpecBfs /\ WF_vars(BfsIter) /\ WF_vars(BfsReturn)

(***************************************************************************)
(* The StateGraph interface and the walk together: every StateGraph that   *)
(* public calls or find_solvable_states can produce.                       *)
(***************************************************************************)
InitGraphs == InitApi \/ InitWalk

NextGraphs == NextApi \/ NextWalk

SpecGraphs == InitGraphs /\ [][NextGraphs]_vars

(***************************************************************************)
(* Properties.                                                             *)
(***************************************************************************)
Boulders(state) == {i \in DOMAIN state : IsBoulder(state[i])}

\* the configurations one legal push away from state
Pushes(state, board_size) ==
  UNION {extend_state(i, DIRECTIONS[d], state, board_size) :
           i \in Boulders(state), d \in 1..Len(DIRECTIONS)}

RECURSIVE PushClosure(_, _, _)
PushClosure(frontier, seen, board_size) ==
  IF frontier = {} THEN seen
  ELSE LET next == UNION {Pushes(s, board_size) : s \in frontier} \ seen
       IN PushClosure(next, seen \cup next, board_size)

\* the configurations reachable from root by zero or more legal pushes
ReachableStates(root, board_size) == PushClosure({root}, {root}, board_size)

Ids(g) == DOMAIN g.id_to_state

HeldStates(g) == {g.id_to_state[i] : i \in Ids(g)}

\* C1: the graph find_solvable_states returns holds exactly the
\* configurations reachable by zero or more legal pushes from the root,
\* the root being the input grid with the tractor cell set Unreachable and
\* flood-filled.
C1_ExactlyReachable ==
  /\ [][pc = "start" =>
          initial_state' = Some(RootOf(Unwrap(input)[1], Unwrap(input)[2], size))]_vars
  /\ [](pc = "done" =>
          /\ HeldStates(graph) = ReachableStates(Unwrap(initial_state), size)
          /\ DOMAIN graph.state_to_id = ReachableStates(Unwrap(initial_state), size))

C1_Witness ==
  /\ pc = "done"
  /\ len(graph) >= 5
  /\ NumEdges(graph) > len(graph)

\* C2: the ids of a StateGraph are exactly 0 .. len()-1 and the adjacency
\* mapping has exactly those ids as its keys.
C2_IdsDense ==
  /\ Ids(graph) = 0..(len(graph) - 1)
  /\ DOMAIN graph.neighbors = Ids(graph)

C2_Witness ==
  /\ pc = "api"
  /\ len(graph) >= 3
  /\ NumEdges(graph) >= 2

\* C3: the configuration-to-id and id-to-configuration mappings are inverse
\* to each other, so no two ids hold the same configuration.
C3_Bijective ==
  /\ \A s \in DOMAIN graph.state_to_id :
       get_state(graph, graph.state_to_id[s]) = Some(s)
  /\ \A i \in Ids(graph) :
       /\ contains_state(graph, graph.id_to_state[i])
       /\ graph.state_to_id[graph.id_to_state[i]] = i
  /\ \A i \in Ids(graph), j \in Ids(graph) :
       i # j => get_state(graph, i) # get_state(graph, j)

C3_Witness ==
  /\ pc = "done"
  /\ len(graph) >= 10

\* C4: get_state(0) is the configuration the constructor was given, whatever
\* was inserted or connected since.
C4_RootIdentity ==
  initial_state # None => get_state(graph, 0) = initial_state

C4_Witness ==
  /\ pc = "api"
  /\ len(graph) >= 3
  /\ last.op = "connect_states"
  /\ get_state(graph, 0) = initial_state

\* C5: insert_state of a configuration already present panics and leaves
\* the graph as it was; otherwise it returns the former len(), stores the
\* configuration under that id with an empty neighbour list, makes len()
\* one larger and leaves every earlier configuration, id and neighbour list
\* as it was.
C5_InsertState ==
  [][last'.op = "insert_state" =>
       LET state == last'.state
       IN IF contains_state(graph, state)
          THEN pc' = "panic" /\ last'.ret = None /\ graph' = graph
          ELSE /\ pc' = pc
               /\ last'.ret = Some(len(graph))
               /\ get_state(graph', len(graph)) = Some(state)
               /\ graph'.state_to_id[state] = len(graph)
               /\ get_neighbors(graph', len(graph)) = Some(<<>>)
               /\ len(graph') = len(graph) + 1
               /\ \A i \in Ids(graph) :
                    /\ get_state(graph', i) = get_state(graph, i)
                    /\ get_neighbors(graph', i) = get_neighbors(graph, i)
               /\ \A s \in DOMAIN graph.state_to_id :
                    /\ contains_state(graph', s)
                    /\ graph'.state_to_id[s] = graph.state_to_id[s]]_vars

C5_Witness ==
  /\ pc = "api"
  /\ last.op = "insert_state"
  /\ last.ret = Some(2)
  /\ len(graph) = 3
  /\ NumEdges(graph) >= 1

\* C6: connect_states with both configurations present appends the id of
\* the second once to the end of the first one's neighbour list, also when
\* it is already in the list, and changes nothing else; with the first
\* configuration absent it panics and leaves the graph as it was.
C6_ConnectStates ==
  [][last'.op = "connect_states" =>
       LET a == last'.from
           b == last'.to
       IN IF ~contains_state(graph, a)
          THEN pc' = "panic" /\ graph' = graph
          ELSE contains_state(graph, b) =>
                 LET from_id == graph.state_to_id[a]
                     to_id == graph.state_to_id[b]
                 IN /\ pc' = pc
                    /\ graph'.neighbors[from_id] =
                         Append(graph.neighbors[from_id], to_id)
                    /\ DOMAIN graph'.neighbors = DOMAIN graph.neighbors
                    /\ \A i \in DOMAIN graph.neighbors :
                         i # from_id => graph'.neighbors[i] = graph.neighbors[i]
                    /\ graph'.state_to_id = graph.state_to_id
                    /\ graph'.id_to_state = graph.id_to_state
                    /\ len(graph') = len(graph)]_vars

C6_Witness ==
  /\ pc = "api"
  /\ last.op = "connect_states"
  /\ len(graph) >= 2
  /\ \E i \in Ids(graph) :
       /\ Len(graph.neighbors[i]) = 2
       /\ graph.neighbors[i][1] = graph.neighbors[i][2]
       /\ graph.neighbors[i][1] # i

AccessorOps == {"get_neighbors", "get_state", "contains_id", "contains_state", "len"}

\* C7: get_neighbors(id) and get_state(id) return a value exactly when
\* id < len() and None otherwise, contains_id(id) agrees with get_state(id),
\* contains_state(s) holds exactly for the configurations stored under some
\* id, and no accessor panics or changes the graph.
C7_Accessors ==
  /\ [](\A id \in ApiIds :
          /\ get_neighbors(graph, id) # None <=> id < len(graph)
          /\ get_state(graph, id) # None <=> id < len(graph)
          /\ contains_id(graph, id) <=> get_state(graph, id) # None)
  /\ [](\A s \in ApiStates :
          contains_state(graph, s) <=> s \in HeldStates(graph))
  /\ [](last.op \in {"get_neighbors", "get_state"} =>
          (Unwrap(last.ret) # None <=> last.id < len(graph)))
  /\ [](last.op = "contains_id" =>
          (Unwrap(last.ret) <=> get_state(graph, last.id) # None))
  /\ [](last.op = "contains_state" =>
          (Unwrap(last.ret) <=> last.state \in HeldStates(graph)))
  /\ [][last'.op \in AccessorOps =>
          pc' = pc /\ graph' = graph /\ last'.ret # None]_vars

C7_Witness ==
  /\ pc = "api"
  /\ last.op = "get_neighbors"
  /\ last.id = len(graph)
  /\ last.ret = Some(None)
  /\ len(graph) >= 2
  /\ NumEdges(graph) >= 1

Succ(g, S) ==
  UNION {{g.neighbors[i][k] : k \in 1..Len(g.neighbors[i])} :
           i \in S \cap DOMAIN g.neighbors}

RECURSIVE ReachFrom(_, _, _)
ReachFrom(g, frontier, seen) ==
  IF frontier = {} THEN seen
  ELSE LET next == Succ(g, frontier) \ seen
       IN ReachFrom(g, next, seen \cup next)

\* the ids that have a directed path from source, source included
ReachSet(g, source) == ReachFrom(g, {source}, {source})

RECURSIVE LayerOf(_, _, _, _, _)
LayerOf(g, frontier, seen, d, target) ==
  IF target \in frontier THEN d
  ELSE IF frontier = {} THEN -1
  ELSE LET next == Succ(g, frontier) \ seen
       IN LayerOf(g, next, seen \cup next, d + 1, target)

\* the least number of edges on a directed path from source to target,
\* -1 when there is none
MinDist(g, source, target) == LayerOf(g, {source}, {source}, 0, target)

Children == {shortest[k][2] : k \in 1..Len(shortest)}

\* C8: every <<parent, child>> pair build_shortest_path_from records has
\* the child exactly one edge farther from the source than the parent.
C8_ParentsMinimal ==
  pc \in {"bfs", "bfs_done"} =>
    \A k \in 1..Len(shortest) :
      MinDist(graph, Unwrap(from), shortest[k][2]) =
        MinDist(graph, Unwrap(from), shortest[k][1]) + 1

\* C9: build_shortest_path_from terminates, and the ids it records as
\* children are exactly the ids other than the source that have a directed
\* path from the source; no other id and never the source is recorded.
C9_ChildrenAreReachable ==
  /\ [](pc \in {"bfs", "bfs_done"} =>
          Children \subseteq ReachSet(graph, Unwrap(from)) \ from)
  /\ [](pc = "bfs_done" =>
          Children = ReachSet(graph, Unwrap(from)) \ from)
  /\ (pc = "bfs") ~> (pc = "bfs_done")

C9_Witness ==
  /\ pc = "bfs_done"
  /\ Children # {}
  /\ Children # Ids(graph) \ from
  /\ \E i \in Ids(graph) : i \in Succ(graph, {i})
  /\ \E i \in Children : Unwrap(from) \in Succ(graph, {i})

\* the passes of the inner loop an activation of handle_next_state has
\* still to make, counting every cell from its position on as a boulder
Remaining(f) ==
  IF f.idx >= GridLen(f.state) THEN 0
  ELSE Len(DIRECTIONS) * (GridLen(f.state) - f.idx) - (f.dir - 1)

RECURSIVE WorkOf(_)
WorkOf(frames) ==
  IF frames = <<>> THEN 0
  ELSE 1 + Remaining(Head(frames)) + WorkOf(Tail(frames))

\* 1 between the insert_state and the connect_states of a new state
Pending(p) == IF p = "connect" THEN 1 ELSE 0

\* C10: find_solvable_states terminates and returns a graph of at least
\* one configuration that holds the root.  Termination is stated by a
\* variant: every step either adds a configuration to the graph, and the
\* graph holds only grids of size*size cells, of which there are finitely
\* many, or completes a pending insertion, or strictly shrinks the loop
\* passes left on the recursion stack; no step panics and the walk is never
\* left without an activation to run.
C10_Terminates ==
  /\ [][(pc = "start" \/ pc = "walk" \/ pc = "connect") =>
          (\/ len(graph') > len(graph)
           \/ (len(graph') = len(graph) /\ Pending(pc') < Pending(pc))
           \/ (len(graph') = len(graph) /\ Pending(pc') = Pending(pc)
                 /\ WorkOf(stack') < WorkOf(stack)))]_vars
  /\ [][(\A s \in DOMAIN graph'.state_to_id \ DOMAIN graph.state_to_id :
           s \in [0..(size * size - 1) -> Cell])]_vars
  /\ [](pc # "panic" /\ ((pc = "walk" \/ pc = "connect") => stack # <<>>))
  /\ [](pc = "done" =>
          /\ stack = <<>>
          /\ len(graph) >= 1
          /\ contains_state(graph, Unwrap(initial_state))
          /\ Unwrap(initial_state) \in HeldStates(graph))

C10_Witness ==
  /\ pc = "done"
  /\ size = 3
  /\ stack = <<>>
  /\ len(graph) >= 10
  /\ Len(calls) = len(graph)

Walking == pc = "walk" \/ pc = "connect"

RowOf(i, n) == i \div n

ColOf(i, n) == i % n

Delta(dir) ==
  CASE dir = Up -> <<-1, 0>>
    [] dir = Down -> <<1, 0>>
    [] dir = Left -> <<0, -1>>
    [] dir = Right -> <<0, 1>>

\* the cell k steps from cell i in direction dir, by rows and columns
StepCell(i, dir, n, k) ==
  LET r == RowOf(i, n) + k * Delta(dir)[1]
      c == ColOf(i, n) + k * Delta(dir)[2]
  IN IF r >= 0 /\ r < n /\ c >= 0 /\ c < n THEN Some(r * n + c) ELSE None

\* both cells beyond the boulder are inside the grid and tagged Reachable
LegalPush(boulder, dir, grid, n) ==
  /\ StepCell(boulder, dir, n, 1) # None
  /\ grid[Unwrap(StepCell(boulder, dir, n, 1))] = Reachable
  /\ StepCell(boulder, dir, n, 2) # None
  /\ grid[Unwrap(StepCell(boulder, dir, n, 2))] = Reachable

Dirs == {Up, Down, Left, Right}

\* C11: extend_state returns a configuration exactly when the cell one step
\* and the cell two steps from the boulder in the direction are both inside
\* the grid and tagged Reachable; a step never wraps around a row end.
C11_LegalIffTwoReachable ==
  (Walking /\ stack # <<>>) =>
    \A b \in Boulders(Top.state), dir \in Dirs :
      extend_state(b, dir, Top.state, size) # None
        <=> LegalPush(b, dir, Top.state, size)

\* a boulder at the end of a row whose next two cells by index are Reachable
\* is not pushed Right, a push blocked by a Hole is refused and another push
\* of the same configuration is legal
C11_Witness ==
  /\ pc = "walk" /\ stack # <<>> /\ size = 3
  /\ \E b \in Boulders(Top.state) :
       /\ ColOf(b, size) = size - 1
       /\ b + 2 \in DOMAIN Top.state
       /\ Top.state[b + 1] = Reachable /\ Top.state[b + 2] = Reachable
       /\ extend_state(b, Right, Top.state, size) = None
  /\ \E b \in Boulders(Top.state), dir \in Dirs :
       /\ StepCell(b, dir, size, 2) # None
       /\ Top.state[Unwrap(StepCell(b, dir, size, 1))] = Hole
       /\ extend_state(b, dir, Top.state, size) = None
  /\ \E b \in Boulders(Top.state), dir \in Dirs :
       extend_state(b, dir, Top.state, size) # None

Solid == {Hole, Boulder, BoulderInHole}

\* what C12 says of the result ns of pushing boulder b of grid g in dir
PushedFrom(g, b, dir, ns, n) ==
  LET landing == Unwrap(StepCell(b, dir, n, 1))
  IN /\ DOMAIN ns = DOMAIN g
     /\ ns[landing] = Boulder
     /\ ~IsBoulder(ns[b])
     /\ g[b] = BoulderInHole => ns[b] = Hole
     /\ g[b] = Boulder => ns[b] \in {Unreachable, Reachable}
     /\ \A i \in DOMAIN g \ {b, landing} :
          (g[i] \in Solid \/ ns[i] \in Solid) => ns[i] = g[i]

\* C12: a successful push leaves a Boulder in the landing cell and no
\* boulder in the vacated cell (a Hole if it was BoulderInHole, Unreachable
\* or Reachable if it was Boulder); every other cell changes at most between
\* Unreachable and Reachable; the grid pushed from is left as it was.
C12_PushEffect ==
  /\ []((Walking /\ stack # <<>>) =>
          \A b \in Boulders(Top.state), dir \in Dirs :
            \A ns \in extend_state(b, dir, Top.state, size) :
              PushedFrom(Top.state, b, dir, ns, size))
  /\ [][Walking =>
          /\ \A k \in 1..Len(stack) :
               k <= Len(stack') => stack'[k].state = stack[k].state
          /\ \A i \in Ids(graph) :
               get_state(graph', i) = get_state(graph, i)]_vars

\* a boulder has just been pushed out of its hole
C12_Witness ==
  /\ pc = "connect" /\ stack # <<>>
  /\ Top.state[Top.idx] = BoulderInHole
  /\ \E ns \in PushOf(Top) :
       /\ ns \in HeldStates(graph)
       /\ ns[Top.idx] = Hole
       /\ \E i \in DOMAIN ns : ns[i] = Unreachable /\ Top.state[i] = Reachable
       /\ \E i \in DOMAIN ns \ {Top.idx} : ns[i] = BoulderInHole

\* the order in which the pushes of one boulder are attempted
PushOrder == <<Up, Down, Left, Right>>

\* the configurations of the legal pushes among the first limit (cell,
\* direction) pairs of state, cells ascending and directions in PushOrder
RECURSIVE PushesUpTo(_, _, _)
PushesUpTo(state, n, limit) ==
  IF limit = 0 THEN <<>>
  ELSE LET p == limit - 1
           cell == p \div 4
           dir == PushOrder[(p % 4) + 1]
           before == PushesUpTo(state, n, p)
       IN IF IsBoulder(state[cell]) /\ LegalPush(cell, dir, state, n)
          THEN Append(before, Unwrap(extend_state(cell, dir, state, n)))
          ELSE before

PushSeq(state, n) == PushesUpTo(state, n, 4 * GridLen(state))

\* the neighbour list of id i names, in order, the configurations of seq
NamesInOrder(g, i, seq) ==
  /\ Len(g.neighbors[i]) = Len(seq)
  /\ \A k \in 1..Len(seq) : get_state(g, g.neighbors[i][k]) = Some(seq[k])

\* C13: in the graph find_solvable_states returns, the neighbour list of
\* every id names the configurations of the legal pushes from its
\* configuration, one entry per legal push, by boulder cell ascending and
\* for each boulder in the order Up, Down, Left, Right.
C13_NeighborsInPushOrder ==
  pc = "done" =>
    \A i \in Ids(graph) :
      NamesInOrder(graph, i, PushSeq(graph.id_to_state[i], size))

C13_Witness ==
  /\ pc = "done"
  /\ len(graph) >= 5
  /\ \E i \in Ids(graph) :
       /\ Len(graph.neighbors[i]) >= 3
       /\ graph.neighbors[i][1] > graph.neighbors[i][2]
       /\ Cardinality(Boulders(graph.id_to_state[i])) = 2

\* C14: handle_next_state is invoked once for each configuration of the
\* graph, for the root first and for every other one right after its
\* insertion and connection, and never for a configuration that was
\* already in the graph when the push that produced it was attempted.
C14_ExploredOnce ==
  /\ []((pc = "walk" \/ pc = "done") =>
          /\ Len(calls) = len(graph)
          /\ \A k \in 1..Len(calls) : get_state(graph, k - 1) = Some(calls[k])
          /\ \A j \in 1..Len(calls), k \in 1..Len(calls) :
               j # k => calls[j] # calls[k])
  /\ [](pc = "connect" => Len(calls) = len(graph) - 1)
  /\ [][(Walking /\ calls' # calls) =>
          /\ pc = "connect"
          /\ Len(calls') = Len(calls) + 1
          /\ SubSeq(calls', 1, Len(calls)) = calls
          /\ calls'[Len(calls')] = graph.id_to_state[len(graph) - 1]
          /\ stack'[Len(stack')].state = calls'[Len(calls')]]_vars

\* a finished walk that met configurations it had already explored
C14_Witness ==
  /\ pc = "done"
  /\ Len(calls) >= 5
  /\ NumEdges(graph) > len(graph)

\* the ids build_shortest_path_from has pushed onto its queue, in order
Queued == <<Unwrap(from)>> \o [k \in 1..Len(shortest) |-> shortest[k][2]]

\* C15: build_shortest_path_from pushes every node id onto its queue at
\* most once, so it records at most one parent per child.
C15_QueuedOnce ==
  pc \in {"bfs", "bfs_done"} =>
    \A j \in 1..Len(Queued), k \in 1..Len(Queued) :
      j # k => Queued[j] # Queued[k]

\* the cells of state that hold a seated boulder
Seated(state) == {i \in DOMAIN state : state[i] = BoulderInHole}

\* the <<from, to>> id pairs of the graph
Edges(g) ==
  UNION {{<<i, g.neighbors[i][k]>> : k \in 1..Len(g.neighbors[i])} :
           i \in DOMAIN g.neighbors}

\* C16: a push whose landing cell is a Hole is refused, so no push seats a
\* boulder: along every edge of the graph the walk builds the seated
\* boulders of the target are among those of the source, and no
\* configuration of the graph has more seated boulders than the root.
C16_NeverSeats ==
  /\ (Walking /\ stack # <<>>) =>
       \A b \in Boulders(Top.state), dir \in Dirs :
         LET landing == StepCell(b, dir, size, 1)
         IN (landing # None /\ Top.state[Unwrap(landing)] = Hole)
              => extend_state(b, dir, Top.state, size) = None
  /\ (Walking \/ pc = "done") =>
       /\ \A e \in Edges(graph) :
            /\ Seated(graph.id_to_state[e[2]]) \subseteq Seated(graph.id_to_state[e[1]])
            /\ Cardinality(Seated(graph.id_to_state[e[2]]))
                 <= Cardinality(Seated(graph.id_to_state[e[1]]))
       /\ \A s \in HeldStates(graph) :
            Cardinality(Seated(s)) <= Cardinality(Seated(Unwrap(initial_state)))

\* a finished walk in which a boulder left its hole and in which a boulder
\* stood next to an open Hole with a Reachable cell beyond it
C16_Witness ==
  /\ pc = "done"
  /\ \E e \in Edges(graph) :
       Cardinality(Seated(graph.id_to_state[e[2]]))
         < Cardinality(Seated(graph.id_to_state[e[1]]))
  /\ \E s \in HeldStates(graph), b \in 0..(size * size - 1), dir \in Dirs :
       /\ IsBoulder(s[b])
       /\ StepCell(b, dir, size, 1) # None
       /\ s[Unwrap(StepCell(b, dir, size, 1))] = Hole
       /\ StepCell(b, dir, size, 2) # None
       /\ s[Unwrap(StepCell(b, dir, size, 2))] = Reachable

\* the cells of state that are holes, open or filled
HolesOf(state) == {i \in DOMAIN state : state[i] = Hole \/ state[i] = BoulderInHole}

\* C19: every configuration of the graph the walk builds has as many
\* boulders as the root and the same hole cells as the root; no push
\* creates or destroys a boulder or a hole.
C19_BouldersAndHolesKept ==
  /\ (Walking \/ pc = "done") =>
       \A s \in HeldStates(graph) :
         /\ Cardinality(Boulders(s)) = Cardinality(Boulders(Unwrap(initial_state)))
         /\ HolesOf(s) = HolesOf(Unwrap(initial_state))
  /\ (Walking /\ stack # <<>>) =>
       \A ns \in Pushes(Top.state, size) :
         /\ Cardinality(Boulders(ns)) = Cardinality(Boulders(Top.state))
         /\ HolesOf(ns) = HolesOf(Top.state)

\* a finished walk from a root with a seated boulder and an open hole, in
\* which the seated boulder was moved off its hole
C19_Witness ==
  /\ pc = "done"
  /\ len(graph) >= 3
  /\ \E i \in DOMAIN Unwrap(initial_state) : Unwrap(initial_state)[i] = Hole
  /\ \E s \in HeldStates(graph), i \in Seated(Unwrap(initial_state)) : s[i] = Hole
  /\ Cardinality(Boulders(Unwrap(initial_state))) = 2

\* C20: in the graph the walk builds no id is its own neighbour and no
\* neighbour list holds an id twice: a push always changes the
\* configuration and two different pushes of one configuration give
\* different configurations.
C20_NoSelfNoDuplicate ==
  /\ (Walking \/ pc = "done") =>
       \A i \in DOMAIN graph.neighbors :
         /\ \A k \in 1..Len(graph.neighbors[i]) : graph.neighbors[i][k] # i
         /\ \A j \in 1..Len(graph.neighbors[i]), k \in 1..Len(graph.neighbors[i]) :
              j # k => graph.neighbors[i][j] # graph.neighbors[i][k]
  /\ (Walking /\ stack # <<>>) =>
       LET legal == {p \in Boulders(Top.state) \X Dirs :
                       extend_state(p[1], p[2], Top.state, size) # None}
           produced == Pushes(Top.state, size)
       IN /\ Top.state \notin produced
          /\ Cardinality(produced) = Cardinality(legal)

\* a finished walk with a configuration that has four or more pushes and
\* with a configuration that two different configurations push into
C20_Witness ==
  /\ pc = "done"
  /\ \E i \in Ids(graph) : Len(graph.neighbors[i]) >= 4
  /\ \E e1 \in Edges(graph), e2 \in Edges(graph) :
       e1[2] = e2[2] /\ e1[1] # e2[1]

\* the number of (cell, direction) pairs an activation has already passed
PosOf(f) ==
  IF f.idx >= GridLen(f.state) THEN 4 * GridLen(f.state)
  ELSE 4 * f.idx + (f.dir - 1)

OnStack == {stack[k].state : k \in 1..Len(stack)}

\* the configurations whose handle_next_state call has returned
Returned == {calls[k] : k \in 1..Len(calls)} \ OnStack

\* the configuration insert_state has added and connect_states has not yet
\* been called for
JustInserted ==
  IF pc = "connect" THEN {graph.id_to_state[len(graph) - 1]} ELSE {}

HasIncoming(g, i) == \E e \in Edges(g) : e[2] = i

NeighborIdsInserted == \A e \in Edges(graph) : e[2] \in Ids(graph)

ReturnedComplete ==
  \A s \in Returned :
    NamesInOrder(graph, graph.state_to_id[s], PushSeq(s, size))

StackPartial ==
  \A k \in 1..Len(stack) :
    NamesInOrder(graph, graph.state_to_id[stack[k].state],
                 PushesUpTo(stack[k].state, size, PosOf(stack[k])))

\* C17 as stated: after every insert_state and connect_states step of the
\* walk every neighbour id is an inserted id, every inserted configuration
\* other than the root has an incoming edge, every returned configuration
\* has its complete neighbour list and every configuration on the
\* recursion stack has exactly the edges of the pairs processed so far.
C17_ConsistentAfterEachStep ==
  (Walking \/ pc = "done") =>
    /\ NeighborIdsInserted
    /\ \A i \in Ids(graph) \ {0} : HasIncoming(graph, i)
    /\ ReturnedComplete
    /\ StackPartial

\* C17: as above, except that between insert_state and the connect_states
\* call that follows it the configuration just inserted has no edge at all;
\* that call gives it its first incoming edge, from the configuration
\* being explored.  A configuration has its complete neighbour list in the
\* state its handle_next_state call returns into, and the list of a
\* returned configuration never changes afterwards.
C17_ConsistentBetweenSteps ==
  /\ []((Walking \/ pc = "done") =>
          /\ NeighborIdsInserted
          /\ \A i \in Ids(graph) \ {0} :
               HasIncoming(graph, i) <=> graph.id_to_state[i] \notin JustInserted
          /\ \A s \in JustInserted : graph.neighbors[graph.state_to_id[s]] = <<>>
          /\ StackPartial)
  /\ [][Walking =>
          /\ Returned \subseteq Returned'
          /\ \A s \in Returned :
               graph'.neighbors[graph'.state_to_id[s]]
                 = graph.neighbors[graph.state_to_id[s]]
          /\ \A s \in Returned' \ Returned :
               NamesInOrder(graph', graph'.state_to_id[s], PushSeq(s, size))]_vars
  /\ [][pc = "connect" =>
          /\ pc' = "walk"
          /\ <<graph.state_to_id[Top.state], len(graph) - 1>> \in Edges(graph')
          /\ len(graph') = len(graph)]_vars

\* between insert_state and connect_states, two activations deep, with the
\* configuration being explored part-way through its pushes
C17_Witness ==
  /\ pc = "connect"
  /\ Len(stack) >= 2
  /\ Returned # {}
  /\ graph.neighbors[graph.state_to_id[Top.state]] # <<>>
  /\ Len(PushSeq(Top.state, size))
       > Len(graph.neighbors[graph.state_to_id[Top.state]]) + 1
  /\ ~HasIncoming(graph, len(graph) - 1)

\* C18: a run of find_solvable_states trips no fail-fast check: the
\* configuration being explored is always in the graph, insert_state is
\* reached only with an absent configuration, connect_states only with both
\* endpoints present, extend_state only on a boulder cell, and every cell
\* index read or written lies inside the grid.
C18_NoFailFast ==
  /\ pc # "panic"
  /\ pc = "start" => Unwrap(input)[1] \in DOMAIN Unwrap(input)[2]
  /\ (Walking /\ stack # <<>>) =>
       /\ \A k \in 1..Len(stack) :
            /\ GridLen(stack[k].state) = size * size
            /\ contains_state(graph, stack[k].state)
            /\ stack[k].idx \in 0..GridLen(stack[k].state)
       /\ Top.idx < GridLen(Top.state) =>
            /\ ~ExtendStatePanics(Top.idx, Top.state)
            /\ LET nb == move_one(Top.idx, DIRECTIONS[Top.dir], size)
               IN nb # None =>
                    /\ Unwrap(nb) \in DOMAIN Top.state
                    /\ LET nt == move_one(Unwrap(nb), DIRECTIONS[Top.dir], size)
                       IN nt # None => Unwrap(nt) \in DOMAIN Top.state
            /\ PushOf(Top) # None =>
                 /\ GridLen(Unwrap(PushOf(Top))) = size * size
                 /\ pc = "walk" =>
                      (~contains_state(graph, Unwrap(PushOf(Top)))
                         => ~InsertStatePanics(graph, Unwrap(PushOf(Top))))
                 /\ pc = "walk" =>
                      (contains_state(graph, Unwrap(PushOf(Top)))
                         => ~ConnectStatesPanics(graph, Top.state, Unwrap(PushOf(Top))))
                 /\ pc = "connect" =>
                      ~ConnectStatesPanics(graph, Top.state, Unwrap(PushOf(Top)))

\* connect_states is about to be called for a push of the boulder in the
\* last cell of the grid, three or more configurations into the walk
C18_Witness ==
  /\ pc = "connect"
  /\ size = 3
  /\ Top.idx = GridLen(Top.state) - 1
  /\ len(graph) >= 4
  /\ ~ConnectStatesPanics(graph, Top.state, Unwrap(PushOf(Top)))

====
